---- MODULE Spec2Model ----
(***************************************************************************)
(* A model of the rusty lexer (src/src/lex.rs) and of the tokenize command *)
(* that drives it (src/src/main.rs).                                       *)
(*                                                                         *)
(* A text is a sequence of characters; a buffer (a Rust str) is the        *)
(* sequence of the bytes of its UTF-8 encoding.  A &str that borrows from  *)
(* the buffer is a pointer and a length: [ptr |-> offset, len |-> bytes].  *)
(***************************************************************************)
EXTENDS Integers, Sequences, FiniteSets, TLC

\* ------------------------------------------------------------------ bounds

\* longest input over the general alphabet
MaxLen == 3
\* longest input over the digits-and-dots alphabet
MaxNumLen == 5
\* longest input over the whitespace-and-comments alphabet
MaxTriviaLen == 5
\* pulls recorded after the lexer is exhausted
MaxNones == 2
\* longest input over the words alphabet
MaxWordLen == 4
\* longest input over the string-literals alphabet
MaxStringLen == 4
\* longest input over the operators alphabet
MaxOpLen == 3

\* -------------------------------------------------------------- characters

QUOTE == "\""
NL == "\n"
\* U+00E9, a two-byte character that starts no lexical rule
EACUTE == "U+00E9"
\* U+00A0 (no-break space), a two-byte whitespace character
NBSP == "U+00A0"

\* the bytes of the two-byte characters
LeadBytes == {"C3", "C2"}
ContinuationBytes == {"A9", "A0"}

\* '0'..='9'
Digits ==
    {"0", "1", "2", "3", "4", "5", "6", "7", "8", "9"}

\* 'a'..='z' | 'A'..='Z' | '_'
Letters ==
    {"a", "b", "c", "d", "e", "f", "g", "h", "i", "j", "k", "l", "m",
     "n", "o", "p", "q", "r", "s", "t", "u", "v", "w", "x", "y", "z",
     "A", "B", "C", "D", "E", "F", "G", "H", "I", "J", "K", "L", "M",
     "N", "O", "P", "Q", "R", "S", "T", "U", "V", "W", "X", "Y", "Z", "_"}

\* char::len_utf8
len_utf8(c) ==
    IF c \in {EACUTE, NBSP} THEN 2 ELSE 1

\* the UTF-8 encoding of one character
utf8(c) ==
    IF c = EACUTE THEN <<"C3", "A9">>
    ELSE IF c = NBSP THEN <<"C2", "A0">>
    ELSE <<c>>

\* the buffer holding a text: a String is the UTF-8 encoding of its chars
RECURSIVE encode(_)
encode(text) ==
    IF text = <<>> THEN <<>> ELSE utf8(Head(text)) \o encode(Tail(text))

\* str::chars().next() on a non-empty buffer: the first character
first_char(s) ==
    IF s[1] = "C3" THEN EACUTE
    ELSE IF s[1] = "C2" THEN NBSP
    ELSE s[1]

\* str::is_char_boundary
is_char_boundary(s, i) ==
    \/ i = 0
    \/ i = Len(s)
    \/ i > 0 /\ i < Len(s) /\ s[i + 1] \notin ContinuationBytes

\* char::is_whitespace
is_whitespace(c) ==
    c \in {" ", NL, "\t", "\r", NBSP}

\* ------------------------------------------------------------------ slices

NoSlice == [ptr |-> 0, len |-> 0]

\* the bytes a &str into buffer `whole` denotes
str(whole, s) ==
    SubSeq(whole, s.ptr + 1, s.ptr + s.len)

\* &s[..n]
slice_to(s, n) ==
    [ptr |-> s.ptr, len |-> n]

\* &s[n..]
slice_from(s, n) ==
    [ptr |-> s.ptr + n, len |-> s.len - n]

\* an Option<usize> that is None
NoIndex == -1

\* str::find with a set of characters as the pattern: the byte index of the
\* first character of `s` that is in `set`, or None
RECURSIVE find_from(_, _, _)
find_from(s, set, i) ==
    IF i >= Len(s) THEN NoIndex
    ELSE LET c == first_char(SubSeq(s, i + 1, Len(s)))
         IN IF c \in set THEN i ELSE find_from(s, set, i + len_utf8(c))

find(s, set) ==
    find_from(s, set, 0)

\* str::find with a closure that matches every character NOT in `set`
RECURSIVE find_not_from(_, _, _)
find_not_from(s, set, i) ==
    IF i >= Len(s) THEN NoIndex
    ELSE LET c == first_char(SubSeq(s, i + 1, Len(s)))
         IN IF c \notin set THEN i ELSE find_not_from(s, set, i + len_utf8(c))

find_not(s, set) ==
    find_not_from(s, set, 0)

\* the number of leading bytes str::trim_start removes
RECURSIVE trim_start_from(_, _)
trim_start_from(s, i) ==
    IF i >= Len(s) THEN i
    ELSE LET c == first_char(SubSeq(s, i + 1, Len(s)))
         IN IF is_whitespace(c) THEN trim_start_from(s, i + len_utf8(c)) ELSE i

trim_start(s) ==
    trim_start_from(s, 0)

\* ------------------------------------------------------------------ numbers

RECURSIVE count(_, _)
count(s, b) ==
    IF s = <<>> THEN 0
    ELSE (IF Head(s) = b THEN 1 ELSE 0) + count(Tail(s), b)

RECURSIVE strip_leading_zeros(_)
strip_leading_zeros(s) ==
    IF s # <<>> /\ Head(s) = "0" THEN strip_leading_zeros(Tail(s)) ELSE s

RECURSIVE strip_trailing_zeros(_)
strip_trailing_zeros(s) ==
    IF s # <<>> /\ s[Len(s)] = "0"
    THEN strip_trailing_zeros(SubSeq(s, 1, Len(s) - 1))
    ELSE s

NoValue == <<>>

\* the pieces of `s` around its first dot at index `dot`, if there is one
split_at(s, dot) ==
    IF dot = NoIndex THEN <<s>>
    ELSE <<SubSeq(s, 1, dot), SubSeq(s, dot + 2, Len(s))>>

\* str::splitn(2, '.')
splitn2(s) ==
    split_at(s, find(s, {"."}))

\* the value of a numeral: its integer and fraction digits without the
\* leading and the trailing zeros
Value(pieces) ==
    <<strip_leading_zeros(pieces[1]),
      IF Len(pieces) = 1 THEN <<>> ELSE strip_trailing_zeros(pieces[2])>>

\* str::parse::<f64> on a string of digits and dots.  The grammar accepts
\* Digit+, Digit+ '.' Digit* and Digit* '.' Digit+.
parse_dots(literal, dots) ==
    IF /\ dots <= 1
       /\ Len(literal) > dots
       /\ \A i \in 1..Len(literal) : literal[i] \in Digits \cup {"."}
    THEN [ok |-> TRUE, n |-> Value(splitn2(literal))]
    ELSE [ok |-> FALSE, n |-> NoValue]

\* a parse that wants a digit after the dot
parse_strict(literal) ==
    IF literal # <<>> /\ literal[Len(literal)] = "."
    THEN [ok |-> FALSE, n |-> NoValue]
    ELSE parse_dots(literal, count(literal, "."))

parse(literal) ==
    parse_dots(literal, count(literal, "."))

\* the first piece followed by the pieces of the remainder
split_again(pieces) ==
    IF Len(pieces) = 1 THEN pieces ELSE <<pieces[1]>> \o splitn2(pieces[2])

\* str::splitn(3, '.'): at most three pieces, the last one holding the rest
splitn3(s) ==
    split_again(splitn2(s))

\* ------------------------------------------------------- tokens and errors

\* What one call of Lexer::next hands back, as one record shape:
\*   tag "Ok"   - Some(Ok(Token {origin, kind})), n the payload of Number
\*   tag "Err"  - Some(Err(..)), kind names the error type
\*   tag "None" - None
Item(tag, kind, origin, n, src, token, err_span) ==
    [tag |-> tag, kind |-> kind, origin |-> origin, n |-> n,
     src |-> src, token |-> token, err_span |-> err_span]

None == Item("None", "", NoSlice, NoValue, <<>>, "", NoSlice)

\* the `continue` of the loop in next: nothing is returned yet
Continue == Item("Continue", "", NoSlice, NoValue, <<>>, "", NoSlice)

\* no call has been made yet
NotPulled == Item("NotPulled", "", NoSlice, NoValue, <<>>, "", NoSlice)

Token(origin, kind, n) ==
    Item("Ok", kind, origin, n, <<>>, "", NoSlice)

\* SourceSpan::from(a..b)
SourceSpan(a, b) ==
    [ptr |-> a, len |-> b - a]

SingleTokenError(src, token, err_span) ==
    Item("Err", "SingleTokenError", NoSlice, NoValue, src, token, err_span)

StringTerminationError(src, err_span) ==
    Item("Err", "StringTerminationError", NoSlice, NoValue, src, "", err_span)

\* the miette! report of a numeric literal that does not parse
NumericLiteralError(src, span) ==
    Item("Err", "NumericLiteralError", NoSlice, NoValue, src, "", span)

\* what a step of next leaves behind: the item and the cursor
Step(item, rest, byte) ==
    [item |-> item, rest |-> rest, byte |-> byte]

\* the kinds and the names Display writes for them
DisplayNames ==
    {<<"LeftParen", "LEFT_PAREN">>, <<"RightParen", "RIGHT_PAREN">>,
     <<"LeftBrace", "LEFT_BRACE">>, <<"RightBrace", "RIGHT_BRACE">>,
     <<"Comma", "COMMA">>, <<"Dot", "DOT">>,
     <<"Minus", "MINUS">>, <<"Plus", "PLUS">>,
     <<"Semicolon", "SEMICOLON">>, <<"Star", "STAR">>,
     <<"BangEqual", "BANG_EQUAL">>, <<"EqualEqual", "EQUAL_EQUAL">>,
     <<"LessEqual", "LESS_EQUAL">>, <<"GreaterEqual", "GREATER_EQUAL">>,
     <<"Less", "LESS">>, <<"Greater", "GREATER">>,
     <<"Slash", "SLASH">>, <<"Bang", "BANG">>,
     <<"Equal", "EQUAL">>, <<"String", "STRING">>,
     <<"Ident", "IDENTFIER">>, <<"Number", "NUMBER">>,
     <<"And", "AND">>, <<"Class", "CLASS">>,
     <<"Else", "ELSE">>, <<"False", "FALSE">>,
     <<"For", "FOR">>, <<"Fun", "FUN">>,
     <<"If", "IF">>, <<"Nil", "NIL">>,
     <<"Or", "OR">>, <<"Print", "PRINT">>,
     <<"Return", "RETURN">>, <<"Super", "SUPER">>,
     <<"This", "THIS">>, <<"True", "TRUE">>,
     <<"Var", "VAR">>, <<"While", "WHILE">>}

\* the name Display writes for a kind
DisplayName(kind) ==
    (CHOOSE pair \in DisplayNames : pair[1] = kind)[2]

\* str::trim_start_matches(c)
RECURSIVE trim_start_matches(_, _)
trim_start_matches(s, c) ==
    IF s # <<>> /\ Head(s) = c THEN trim_start_matches(Tail(s), c) ELSE s

\* str::trim_end_matches(c)
RECURSIVE trim_end_matches(_, _)
trim_end_matches(s, c) ==
    IF s # <<>> /\ s[Len(s)] = c
    THEN trim_end_matches(SubSeq(s, 1, Len(s) - 1), c)
    ELSE s

\* str::trim_matches(c)
trim_matches(s, c) ==
    trim_end_matches(trim_start_matches(s, c), c)

\* an unescape that leaves the quotes in place
unescape_verbatim(s) ==
    s

\* Token::unescape
unescape(s) ==
    trim_matches(s, QUOTE)

\* `{n}` for an f64: the integer digits, then the fraction if there is one
format_f64(n) ==
    (IF n[1] = <<>> THEN <<"0">> ELSE n[1])
        \o (IF n[2] = <<>> THEN <<>> ELSE <<".">> \o n[2])

\* Display for Token: the line println! writes, the kind's name as one
\* element and the rest byte by byte
Display(w, token) ==
    CASE token.kind = "String" ->
            <<DisplayName(token.kind), " ">> \o str(w, token.origin)
                \o <<" ">> \o unescape(str(w, token.origin))
      [] token.kind = "Ident" ->
            <<DisplayName(token.kind), " ">> \o str(w, token.origin)
      [] token.kind = "Number" ->
            <<DisplayName(token.kind), " ">> \o format_f64(token.n)
                \o (IF token.n[2] = <<>> THEN <<".", "0">> ELSE <<>>)
      [] OTHER -> <<DisplayName(token.kind)>>

\* the characters that are a token by themselves
SingleCharKind(c) ==
    CASE c = "(" -> "LeftParen"
      [] c = ")" -> "RightParen"
      [] c = "{" -> "LeftBrace"
      [] c = "}" -> "RightBrace"
      [] c = "," -> "Comma"
      [] c = "." -> "Dot"
      [] c = "-" -> "Minus"
      [] c = "+" -> "Plus"
      [] c = ";" -> "Semicolon"
      [] c = "*" -> "Star"
      [] OTHER -> ""

\* the reserved words
Keyword(literal) ==
    CASE literal = <<"a", "n", "d">> -> "And"
      [] literal = <<"c", "l", "a", "s", "s">> -> "Class"
      [] literal = <<"e", "l", "s", "e">> -> "Else"
      [] literal = <<"f", "a", "l", "s", "e">> -> "False"
      [] literal = <<"f", "o", "r">> -> "For"
      [] literal = <<"f", "u", "n">> -> "Fun"
      [] literal = <<"i", "f">> -> "If"
      [] literal = <<"n", "i", "l">> -> "Nil"
      [] literal = <<"o", "r">> -> "Or"
      [] literal = <<"p", "r", "i", "n", "t">> -> "Print"
      [] literal = <<"r", "e", "t", "u", "r", "n">> -> "Return"
      [] literal = <<"s", "u", "p", "e", "r">> -> "Super"
      [] literal = <<"t", "h", "i", "s">> -> "This"
      [] literal = <<"t", "r", "u", "e">> -> "True"
      [] literal = <<"v", "a", "r">> -> "Var"
      [] literal = <<"w", "h", "i", "l", "e">> -> "While"
      [] OTHER -> "Ident"

\* ------------------------------------------------------------------- Lexer

\* Lexer::new
Lexer(input) ==
    [whole |-> input, rest |-> [ptr |-> 0, len |-> Len(input)], byte |-> 0]

\* str::starts_with for a one-byte character
starts_with(s, c) ==
    s # <<>> /\ s[1] = c

\* The arms of next.  `self` is the lexer after the first character `c` has
\* been taken off `rest` and counted in `byte`; `c_onwards` is `rest` as it
\* was before, `c_str` the slice holding `c` alone.

\* the closure `just`
just(c_str, kind) ==
    Token(c_str, kind, NoValue)

\* a lexer that takes every unexpected character for a one-byte character
UnexpectedOneByte(self, c) ==
    Step(SingleTokenError(self.whole, c, SourceSpan(self.byte - 1, self.byte)),
         self.rest, self.byte)

\* a lexer that puts an unexpected character back
UnexpectedPutBack(self, c) ==
    Step(SingleTokenError(self.whole, c, SourceSpan(self.byte - len_utf8(c), self.byte)),
         [ptr |-> self.rest.ptr - len_utf8(c), len |-> self.rest.len + len_utf8(c)],
         self.byte - len_utf8(c))

\* the arm for a character that starts no rule
Unexpected(self, c) ==
    Step(SingleTokenError(self.whole, c, SourceSpan(self.byte - len_utf8(c), self.byte)),
         self.rest, self.byte)

\* a lexer that looks for the closing quote from the start of the buffer
StartedStringFindsInWhole(self, c, c_onwards) ==
    LET end == find(self.whole, {QUOTE})
    IN IF end # NoIndex /\ end + 1 <= self.rest.len
       THEN Step(Token(slice_to(c_onwards, end + 1 + 1), "String", NoValue),
                 slice_from(self.rest, end + 1),
                 self.byte + end + 1)
       ELSE Step(StringTerminationError(
                     self.whole,
                     SourceSpan(self.byte - len_utf8(c), Len(self.whole))),
                 slice_from(self.rest, self.rest.len),
                 self.byte + self.rest.len)

\* a lexer that leaves the closing quote out of the literal
StartedStringShortLiteral(self, c, c_onwards) ==
    LET end == find(str(self.whole, self.rest), {QUOTE})
    IN IF end # NoIndex
       THEN Step(Token(slice_to(c_onwards, end + 1), "String", NoValue),
                 slice_from(self.rest, end + 1),
                 self.byte + end + 1)
       ELSE Step(StringTerminationError(
                     self.whole,
                     SourceSpan(self.byte - len_utf8(c), Len(self.whole))),
                 slice_from(self.rest, self.rest.len),
                 self.byte + self.rest.len)

\* a lexer that reports the unterminated string and leaves the suffix
StartedStringResumes(self, c, c_onwards) ==
    LET end == find(str(self.whole, self.rest), {QUOTE})
    IN IF end # NoIndex
       THEN Step(Token(slice_to(c_onwards, end + 1 + 1), "String", NoValue),
                 slice_from(self.rest, end + 1),
                 self.byte + end + 1)
       ELSE Step(StringTerminationError(
                     self.whole,
                     SourceSpan(self.byte - len_utf8(c), Len(self.whole))),
                 self.rest,
                 self.byte)

\* a lexer whose string literals also end at a newline
StartedStringStopsAtNewline(self, c, c_onwards) ==
    LET end == find(str(self.whole, self.rest), {QUOTE, NL})
    IN IF end # NoIndex
       THEN Step(Token(slice_to(c_onwards, end + 1 + 1), "String", NoValue),
                 slice_from(self.rest, end + 1),
                 self.byte + end + 1)
       ELSE Step(StringTerminationError(
                     self.whole,
                     SourceSpan(self.byte - len_utf8(c), Len(self.whole))),
                 slice_from(self.rest, self.rest.len),
                 self.byte + self.rest.len)

StartedString(self, c, c_onwards) ==
    LET end == find(str(self.whole, self.rest), {QUOTE})
    IN IF end # NoIndex
       THEN Step(Token(slice_to(c_onwards, end + 1 + 1), "String", NoValue),
                 slice_from(self.rest, end + 1),
                 self.byte + end + 1)
       ELSE Step(StringTerminationError(
                     self.whole,
                     SourceSpan(self.byte - len_utf8(c), Len(self.whole))),
                 slice_from(self.rest, self.rest.len),
                 self.byte + self.rest.len)

\* a lexer whose comments run to the end of the input
StartedSlashToTheEnd(self, c_str) ==
    LET r == str(self.whole, self.rest)
    IN IF starts_with(r, "/")
       THEN Step(Continue, slice_from(self.rest, Len(r)), self.byte + Len(r))
       ELSE Step(Token(c_str, "Slash", NoValue), self.rest, self.byte)

StartedSlash(self, c_str) ==
    LET r == str(self.whole, self.rest)
        found == find(r, {NL})
        line_end == IF found = NoIndex THEN Len(r) ELSE found
    IN IF starts_with(r, "/")
       THEN Step(Continue, slice_from(self.rest, line_end), self.byte + line_end)
       ELSE Step(Token(c_str, "Slash", NoValue), self.rest, self.byte)

\* a lexer whose identifiers continue with letters only
StartedIdentLettersOnly(self, c, c_onwards) ==
    LET s == str(self.whole, c_onwards)
        found == find_not(s, Letters)
        first_non_ident == IF found = NoIndex THEN Len(s) ELSE found
        literal == slice_to(c_onwards, first_non_ident)
        extra_bytes == literal.len - len_utf8(c)
    IN Step(Token(literal, Keyword(str(self.whole, literal)), NoValue),
            slice_from(self.rest, extra_bytes),
            self.byte + extra_bytes)

StartedIdent(self, c, c_onwards) ==
    LET s == str(self.whole, c_onwards)
        found == find_not(s, Letters \cup Digits)
        first_non_ident == IF found = NoIndex THEN Len(s) ELSE found
        literal == slice_to(c_onwards, first_non_ident)
        extra_bytes == literal.len - len_utf8(c)
    IN Step(Token(literal, Keyword(str(self.whole, literal)), NoValue),
            slice_from(self.rest, extra_bytes),
            self.byte + extra_bytes)

\* a lexer that never truncates a run of three pieces
KeepTwoPieces(run, dotted) ==
    IF Len(dotted) = 2 /\ dotted[2] = <<>>
    THEN slice_to(run, Len(dotted[1]))
    ELSE run

\* the match on the pieces of the run of digits and dots: the literal kept
Keep(run, dotted) ==
    IF Len(dotted) = 3
    THEN slice_to(run, Len(dotted[1]) + 1 + Len(dotted[2]))
    ELSE IF Len(dotted) = 2 /\ dotted[2] = <<>>
    THEN slice_to(run, Len(dotted[1]))
    ELSE run

\* the literal of the run: its pieces are those of splitn(3, '.')
Disambiguate(whole, run) ==
    Keep(run, splitn3(str(whole, run)))

\* the slice of `s` up to the index `found`, or all of it
up_to(s, found) ==
    slice_to(s, IF found = NoIndex THEN s.len ELSE found)

\* the maximal run of digits and dots that c_onwards begins with
NumberRun(whole, c_onwards) ==
    up_to(c_onwards, find_not(str(whole, c_onwards), Digits \cup {"."}))

\* the item for what parse made of the literal, the cursor being moved
Parsed(whole, literal, parsed, rest, byte) ==
    IF parsed.ok
    THEN Step(Token(literal, "Number", parsed.n), rest, byte)
    ELSE Step(NumericLiteralError(whole, SourceSpan(byte - literal.len, byte)),
              rest, byte)

\* a lexer that moves rest over the extra bytes and leaves byte behind
AdvanceRestOnly(self, literal, extra_bytes) ==
    Parsed(self.whole, literal, parse(str(self.whole, literal)),
           slice_from(self.rest, extra_bytes), self.byte)

\* the cursor moves over the extra bytes of the literal, which is parsed
Advance(self, literal, extra_bytes) ==
    Parsed(self.whole, literal, parse(str(self.whole, literal)),
           slice_from(self.rest, extra_bytes), self.byte + extra_bytes)

NumberLiteral(self, c, literal) ==
    Advance(self, literal, literal.len - len_utf8(c))

StartedNumber(self, c, c_onwards) ==
    NumberLiteral(self, c, Disambiguate(self.whole, NumberRun(self.whole, c_onwards)))

\* a lexer that forgets the trimmed whitespace in the two-character span
StartedIfEqualElseShortSpan(self, c, c_onwards, c_str, yes, no) ==
    LET rest == slice_from(self.rest, trim_start(str(self.whole, self.rest)))
        trimmed == c_onwards.len - rest.len - 1
        byte == self.byte + trimmed
    IN IF starts_with(str(self.whole, rest), "=")
       THEN Step(Token(slice_to(c_onwards, len_utf8(c) + 1), yes, NoValue),
                 slice_from(rest, 1), byte + 1)
       ELSE Step(Token(c_str, no, NoValue), rest, byte)

\* a lexer that looks for `=` only right after the operator
StartedIfEqualElseAdjacent(self, c, c_onwards, c_str, yes, no) ==
    IF starts_with(str(self.whole, self.rest), "=")
    THEN Step(Token(slice_to(c_onwards, len_utf8(c) + 1), yes, NoValue),
              slice_from(self.rest, 1), self.byte + 1)
    ELSE Step(Token(c_str, no, NoValue), self.rest, self.byte)

StartedIfEqualElse(self, c, c_onwards, c_str, yes, no) ==
    LET rest == slice_from(self.rest, trim_start(str(self.whole, self.rest)))
        trimmed == c_onwards.len - rest.len - 1
        byte == self.byte + trimmed
    IN IF starts_with(str(self.whole, rest), "=")
       THEN Step(Token(slice_to(c_onwards, len_utf8(c) + trimmed + 1), yes, NoValue),
                 slice_from(rest, 1), byte + 1)
       ELSE Step(Token(c_str, no, NoValue), rest, byte)

\* one pass through the body of the loop of next, on a non-empty rest
Dispatch(lexer) ==
    LET c == first_char(str(lexer.whole, lexer.rest))
        c_str == slice_to(lexer.rest, len_utf8(c))
        c_onwards == lexer.rest
        self == [whole |-> lexer.whole,
                 rest |-> slice_from(lexer.rest, len_utf8(c)),
                 byte |-> lexer.byte + len_utf8(c)]
    IN CASE SingleCharKind(c) # "" -> Step(just(c_str, SingleCharKind(c)), self.rest, self.byte)
         [] c = "/" -> StartedSlash(self, c_str)
         [] c = "<" -> StartedIfEqualElse(self, c, c_onwards, c_str, "LessEqual", "Less")
         [] c = ">" -> StartedIfEqualElse(self, c, c_onwards, c_str, "GreaterEqual", "Greater")
         [] c = "!" -> StartedIfEqualElse(self, c, c_onwards, c_str, "BangEqual", "Bang")
         [] c = "=" -> StartedIfEqualElse(self, c, c_onwards, c_str, "EqualEqual", "Equal")
         [] c = QUOTE -> StartedString(self, c, c_onwards)
         [] is_whitespace(c) -> Step(Continue, self.rest, self.byte)
         [] c \in Digits -> StartedNumber(self, c, c_onwards)
         [] c \in Letters -> StartedIdent(self, c, c_onwards)
         [] OTHER -> Unexpected(self, c)

\* a lexer that counts a character before finding there is none
ExhaustedCounts(lexer) ==
    Step(None, lexer.rest, lexer.byte + 1)

\* `chars.next()?` on an empty rest: None, and nothing is touched
Exhausted(lexer) ==
    Step(None, lexer.rest, lexer.byte)

\* Lexer::next: the loop runs until an arm returns
RECURSIVE next(_)
next(lexer) ==
    IF lexer.rest.len = 0 THEN Exhausted(lexer)
    ELSE LET r == Dispatch(lexer)
         IN IF r.item = Continue
            THEN next([whole |-> lexer.whole, rest |-> r.rest, byte |-> r.byte])
            ELSE r

\* ------------------------------------------------------------------ inputs

\* every text over `alphabet` of at most `n` characters
Texts(alphabet, n) ==
    UNION {[1..k -> alphabet] : k \in 0..n}

GeneralAlphabet ==
    {"+", "/", "=", ".", QUOTE, " ", NL, "1", "a", "@", EACUTE, NBSP}

NumberAlphabet ==
    {"0", "1", ".", "a"}

TriviaAlphabet ==
    {"/", NL, " ", "+", "<"}

WordAlphabet ==
    {"f", "o", "r", "O", "1", " "}

StringAlphabet ==
    {QUOTE, "\\", NL, "a"}

OperatorAlphabet ==
    {"!", "=", "<", ">", " ", NBSP}

Inputs ==
    Texts(GeneralAlphabet, MaxLen)
        \cup Texts(NumberAlphabet, MaxNumLen)
        \cup Texts(TriviaAlphabet, MaxTriviaLen)
        \cup Texts(WordAlphabet, MaxWordLen)
        \cup Texts(StringAlphabet, MaxStringLen)
        \cup Texts(OperatorAlphabet, MaxOpLen)

\* ------------------------------------------------------------- diagnostics

\* the value of a call that panics
Panic == -1

\* str::lines().count(): the lines are ended by newlines, and a last line
\* without one counts when it is not empty
lines_count(s) ==
    count(s, NL) + (IF s # <<>> /\ s[Len(s)] # NL THEN 1 ELSE 0)

\* SingleTokenError::line and StringTerminationError::line: the slice
\* &src[..=offset] panics unless offset + 1 is a character boundary
line(src, err_span) ==
    IF err_span.ptr + 1 <= Len(src) /\ is_char_boundary(src, err_span.ptr + 1)
    THEN lines_count(SubSeq(src, 1, err_span.ptr + 1))
    ELSE Panic

\* ------------------------------------------------------------------- state

VARIABLES
    whole,      \* Lexer.whole: the buffer
    rest,       \* Lexer.rest: the unscanned suffix, a slice of whole
    byte,       \* Lexer.byte
    last,       \* what the latest call of next returned
    out,        \* the tokens and errors returned so far, each with the
                \* position of the cursor before and after its call
    nones,      \* the number of calls that returned None
    status,     \* main: "lexing" outside main, else "running", "exit0",
                \* "exit65" or "panicked"
    any_cc_err, \* main: any_cc_err
    printed,    \* main: the tokens written to stdout
    stdout,     \* main: the lines written to stdout
    stderr,     \* main: the "[line N] Error" lines written to stderr
    mode,       \* what the second lexer is for: "none", "relex", "suffix"
    fresh,      \* a second Lexer, made by Lexer::new on a part of the buffer
    flast,      \* what the latest call of next on the second lexer returned
    fout,       \* the tokens and errors the second lexer returned so far
    mark        \* the length of out when the second lexer was made

lexer_vars == <<whole, rest, byte, last, out, nones>>

main_vars == <<status, any_cc_err, printed, stdout, stderr>>

fresh_vars == <<mode, fresh, flast, fout, mark>>

vars == <<whole, rest, byte, last, out, nones, status, any_cc_err, printed,
          stdout, stderr, mode, fresh, flast, fout, mark>>

\* Lexer::new(input) for the content `text`
NewLexer(text) ==
    /\ whole = Lexer(encode(text)).whole
    /\ rest = Lexer(encode(text)).rest
    /\ byte = Lexer(encode(text)).byte
    /\ last = NotPulled
    /\ out = <<>>
    /\ nones = 0

\* main has not been entered
NoMain ==
    /\ status = "lexing"
    /\ any_cc_err = FALSE
    /\ printed = <<>>
    /\ stdout = <<>>
    /\ stderr = <<>>

\* there is no second lexer
NoFresh ==
    /\ mode = "none"
    /\ fresh = Lexer(<<>>)
    /\ flast = NotPulled
    /\ fout = <<>>
    /\ mark = 0

\* a caller holding Lexer::new(input) for some file content
Init ==
    /\ \E text \in Inputs : NewLexer(text)
    /\ NoMain
    /\ NoFresh

\* the history after a call that returned `r` from cursor `from`
Record(history, r, from) ==
    IF r.item = None THEN history
    ELSE Append(history, [item |-> r.item, from |-> from, to |-> r.rest.ptr])

\* the cursor and the history after the call of next that returned `r`
Returned(r) ==
    /\ rest' = r.rest
    /\ byte' = r.byte
    /\ last' = r.item
    /\ out' = Record(out, r, rest.ptr)
    /\ nones' = IF r.item = None THEN nones + 1 ELSE nones
    /\ UNCHANGED whole

\* one call of Lexer::next by a caller other than main
Pull ==
    /\ status = "lexing"
    /\ nones < MaxNones
    /\ mode = "none" \/ (mode = "suffix" /\ Len(out) - mark = Len(fout) /\ flast # None)
    /\ Returned(next([whole |-> whole, rest |-> rest, byte |-> byte]))
    /\ UNCHANGED main_vars
    /\ UNCHANGED fresh_vars

Next ==
    Pull

Spec ==
    Init /\ [][Next]_vars

\* a call of next is possible: next itself always returns, and its return
\* changes out or nones
PullEnabled ==
    /\ status = "lexing"
    /\ nones < MaxNones
    /\ mode = "none"

\* a caller that keeps calling next, as a `for` loop over the lexer does:
\* weak fairness of Pull, written out with PullEnabled for its ENABLED
LiveSpec ==
    Init /\ [][Next]_vars /\ ([]<>(~PullEnabled) \/ []<><<Pull>>_vars)

\* -------------------------------------------------------------------- main

\* the process is started on a file
InitMain ==
    /\ \E text \in Inputs : NewLexer(text)
    /\ status = "running"
    /\ any_cc_err = FALSE
    /\ printed = <<>>
    /\ stdout = <<>>
    /\ stderr = <<>>
    /\ NoFresh

\* the body of the for loop for an Err item: the flag is set and the line
\* is computed for the message; a panic in line() ends the process
Report(e) ==
    IF e.kind \in {"SingleTokenError", "StringTerminationError"}
    THEN /\ any_cc_err' = TRUE
         /\ IF line(e.src, e.err_span) = Panic
            THEN status' = "panicked" /\ UNCHANGED stderr
            ELSE /\ stderr' = Append(stderr, [kind |-> e.kind,
                                              line |-> line(e.src, e.err_span)])
                 /\ UNCHANGED status
    ELSE UNCHANGED <<any_cc_err, stderr, status>>

\* one iteration of `for token in Lexer::new(&file_contents)`
Iterate(r) ==
    /\ r.item # None
    /\ Returned(r)
    /\ IF r.item.tag = "Ok"
       THEN /\ printed' = Append(printed, r.item)
            /\ stdout' = Append(stdout, Display(whole, r.item))
            /\ UNCHANGED <<any_cc_err, stderr, status>>
       ELSE /\ Report(r.item)
            /\ UNCHANGED <<printed, stdout>>

\* the lexer is exhausted: the loop ends and main exits
Exit(r) ==
    /\ r.item = None
    /\ Returned(r)
    /\ status' = IF any_cc_err THEN "exit65" ELSE "exit0"
    /\ UNCHANGED <<any_cc_err, printed, stdout, stderr>>

MainLoop ==
    /\ status = "running"
    /\ Iterate(next([whole |-> whole, rest |-> rest, byte |-> byte]))
    /\ UNCHANGED fresh_vars

MainExit ==
    /\ status = "running"
    /\ Exit(next([whole |-> whole, rest |-> rest, byte |-> byte]))
    /\ UNCHANGED fresh_vars

NextMain ==
    MainLoop \/ MainExit

MainSpec ==
    InitMain /\ [][NextMain]_vars

\* ------------------------------------------------------- a second lexer

\* one call of Lexer::next on the second lexer
FreshPull ==
    /\ \/ mode = "relex"
       \/ mode = "suffix" /\ (Len(out) - mark > Len(fout) \/ last = None)
    /\ flast # None
    /\ fresh' = [whole |-> fresh.whole, rest |-> next(fresh).rest, byte |-> next(fresh).byte]
    /\ flast' = next(fresh).item
    /\ fout' = Record(fout, next(fresh), fresh.rest.ptr)
    /\ UNCHANGED <<mode, mark>>
    /\ UNCHANGED lexer_vars
    /\ UNCHANGED main_vars

\* Lexer::new on the origin of the token just returned
Relex ==
    /\ mode = "none"
    /\ last.tag = "Ok"
    /\ mode' = "relex"
    /\ fresh' = Lexer(str(whole, last.origin))
    /\ flast' = NotPulled
    /\ fout' = <<>>
    /\ mark' = Len(out)
    /\ UNCHANGED lexer_vars
    /\ UNCHANGED main_vars

NextRelex ==
    Pull \/ Relex \/ FreshPull

RelexSpec ==
    Init /\ [][NextRelex]_vars

\* Lexer::new on the unscanned suffix of the first lexer
Restart ==
    /\ mode = "none"
    /\ last # None
    /\ mode' = "suffix"
    /\ fresh' = Lexer(str(whole, rest))
    /\ flast' = NotPulled
    /\ fout' = <<>>
    /\ mark' = Len(out)
    /\ UNCHANGED lexer_vars
    /\ UNCHANGED main_vars

NextSuffix ==
    Pull \/ Restart \/ FreshPull

SuffixSpec ==
    Init /\ [][NextSuffix]_vars

\* ------------------------------------------------- reading the history

\* the byte range of a returned item: a token's origin, an error's span
Region(e) ==
    IF e.item.tag = "Ok" THEN e.item.origin ELSE e.item.err_span

RegionStart(e) ==
    Region(e).ptr

RegionEnd(e) ==
    Region(e).ptr + Region(e).len

\* the character of buffer `w` at byte offset `p`
CharAt(w, p) ==
    first_char(SubSeq(w, p + 1, Len(w)))

\* the offset of the first newline at or after `p`, or the end of the buffer
LineEnd(w, p) ==
    LET found == find(SubSeq(w, p + 1, Len(w)), {NL})
    IN IF found = NoIndex THEN Len(w) ELSE p + found

\* the first offset at or after `p` that is neither whitespace nor inside a
\* `//` line comment beginning at or after `p`
RECURSIVE SkipTrivia(_, _)
SkipTrivia(w, p) ==
    IF p >= Len(w) THEN Len(w)
    ELSE IF is_whitespace(CharAt(w, p)) THEN SkipTrivia(w, p + len_utf8(CharAt(w, p)))
    ELSE IF w[p + 1] = "/" /\ p + 1 < Len(w) /\ w[p + 2] = "/" THEN SkipTrivia(w, LineEnd(w, p))
    ELSE p

\* every byte of [a, b) is whitespace or part of a line comment
IsTrivia(w, a, b) ==
    SkipTrivia(w, a) >= b

\* the character starts no lexical rule
StartsNoRule(c) ==
    /\ SingleCharKind(c) = ""
    /\ c \notin {"/", "<", ">", "!", "=", QUOTE}
    /\ ~is_whitespace(c)
    /\ c \notin Digits
    /\ c \notin Letters

\* --------------------------------------------------------------- C1

\* C1: exhaustion is sticky: once next has returned None, every later call
\* returns None again and leaves rest and byte as they were.
ExhaustionIsSticky ==
    [][last = None => (last' = None /\ rest' = rest /\ byte' = byte)]_vars

\* a call was made after the call that first returned None
PulledAfterExhaustion ==
    last = None /\ nones >= 2 /\ out # <<>>

\* --------------------------------------------------------------- C2

\* the item begins at a double quote that no later double quote closes
OpensUnclosed(e) ==
    /\ whole[RegionStart(e) + 1] = QUOTE
    /\ \A j \in (RegionStart(e) + 2)..Len(whole) : whole[j] # QUOTE

\* C2: an opening quote with no later quote gives an UnterminatedString
\* error spanning from the quote to the end of the buffer; the whole suffix
\* is consumed and nothing but None is returned afterwards.
UnterminatedStringEndsTheScan ==
    \A i \in 1..Len(out) :
        /\ OpensUnclosed(out[i]) <=> out[i].item.kind = "StringTerminationError"
        /\ OpensUnclosed(out[i]) =>
            /\ out[i].item.tag = "Err"
            /\ out[i].item.err_span.len = Len(whole) - out[i].item.err_span.ptr
            /\ out[i].item.err_span.ptr = SkipTrivia(whole, out[i].from)
            /\ out[i].to = Len(whole)
            /\ i = Len(out)
            /\ rest.len = 0
            /\ byte = Len(whole)
            /\ last \in {out[i].item, None}

\* an unterminated string was reported and the lexer was pulled again
PulledAfterUnterminatedString ==
    /\ out # <<>>
    /\ out[Len(out)].item.kind = "StringTerminationError"
    /\ out[Len(out)].item.err_span.len > 1
    /\ nones >= 1

\* --------------------------------------------------------------- C3

\* C3: a character that starts no rule gives an UnexpectedCharacter error
\* whose span is that one character; exactly that character is consumed
\* and the following pull scans from the very next character.
UnexpectedCharacterIsOneCharacter ==
    \A i \in 1..Len(out) :
        LET e == out[i]
            p == SkipTrivia(whole, e.from)
            c == CharAt(whole, p)
        IN /\ p < Len(whole)
           /\ StartsNoRule(c) <=> e.item.kind = "SingleTokenError"
           /\ StartsNoRule(c) =>
               /\ e.item.tag = "Err"
               /\ e.item.token = c
               /\ e.item.err_span = [ptr |-> p, len |-> len_utf8(c)]
               /\ str(whole, e.item.err_span) = utf8(c)
               /\ e.to = p + len_utf8(c)
               /\ i < Len(out) =>
                   /\ out[i + 1].from = e.to
                   /\ RegionStart(out[i + 1]) = SkipTrivia(whole, e.to)
               /\ (i = Len(out) /\ last.tag = "Err") =>
                   /\ rest = [ptr |-> e.to, len |-> Len(whole) - e.to]
                   /\ byte = e.to

\* a two-byte unexpected character was reported and a token followed it
TokenAfterUnexpectedCharacter ==
    \E i \in 1..Len(out) :
        /\ out[i].item.kind = "SingleTokenError"
        /\ out[i].item.err_span.len = 2
        /\ i < Len(out)
        /\ out[i + 1].item.tag = "Ok"
        /\ out[i + 1].item.kind = "Plus"

\* --------------------------------------------------------------- C4

\* C4: the spans of the tokens and the consumed regions of the errors are
\* disjoint and in buffer order, and every byte between them is whitespace
\* or part of a line comment; pulled to exhaustion, they and those gaps
\* cover the buffer.
RegionsPartitionTheBuffer ==
    /\ \A i \in 1..Len(out) :
        /\ RegionStart(out[i]) < RegionEnd(out[i])
        /\ RegionEnd(out[i]) <= Len(whole)
        /\ RegionEnd(out[i]) <= out[i].to
        /\ IsTrivia(whole, RegionEnd(out[i]), out[i].to)
        /\ i = 1 => IsTrivia(whole, 0, RegionStart(out[i]))
        /\ i > 1 =>
            /\ RegionEnd(out[i - 1]) <= RegionStart(out[i])
            /\ IsTrivia(whole, RegionEnd(out[i - 1]), RegionStart(out[i]))
    /\ last = None =>
        IsTrivia(whole, IF out = <<>> THEN 0 ELSE RegionEnd(out[Len(out)]), Len(whole))

\* a run pulled to exhaustion that skipped a comment between two tokens
ExhaustedAcrossComment ==
    /\ last = None
    /\ Len(out) >= 2
    /\ \E p \in RegionEnd(out[1])..(RegionStart(out[2]) - 2) :
        whole[p + 1] = "/" /\ whole[p + 2] = "/"

\* --------------------------------------------------------------- C5

\* the slice is a non-empty str inside the buffer
IsSliceOfWhole(s) ==
    /\ s.len > 0
    /\ s.ptr >= 0
    /\ s.ptr + s.len <= Len(whole)
    /\ is_char_boundary(whole, s.ptr)
    /\ is_char_boundary(whole, s.ptr + s.len)

\* the tokens returned so far, in the order of their calls
TokensOf(history) ==
    SelectSeq(history, LAMBDA e : e.item.tag = "Ok")

\* each token begins at or after the end of the one before it
TokensInOrder ==
    \A i \in 1..Len(TokensOf(out)) :
        /\ IsSliceOfWhole(TokensOf(out)[i].item.origin)
        /\ i > 1 =>
            /\ RegionEnd(TokensOf(out)[i - 1]) <= RegionStart(TokensOf(out)[i])
            /\ RegionStart(TokensOf(out)[i - 1]) < RegionStart(TokensOf(out)[i])

\* C5 as stated: every token's origin is a non-empty slice of the buffer
\* that ends exactly at the cursor left by its call, and the tokens' byte
\* ranges are strictly increasing and do not overlap.
OriginEndsAtCursor ==
    /\ TokensInOrder
    /\ last.tag = "Ok" =>
        /\ IsSliceOfWhole(last.origin)
        /\ last.origin.ptr + last.origin.len = byte
        /\ last.origin.ptr + last.origin.len = rest.ptr

\* the kinds returned by the else branch of the operator arm
OneCharOperatorKinds ==
    {"Bang", "Equal", "Less", "Greater"}

\* C5 (amended): every token's origin is a non-empty slice of the buffer
\* that ends exactly at the cursor left by its call, except that after a
\* one-character operator token (Bang, Equal, Less, Greater) the cursor may
\* lie further on, past the whitespace that followed the operator; the
\* tokens' byte ranges are strictly increasing and do not overlap.
OriginEndsAtCursorOrBeforeTrimmedWhitespace ==
    /\ TokensInOrder
    /\ last.tag = "Ok" =>
        /\ IsSliceOfWhole(last.origin)
        /\ byte = rest.ptr
        /\ last.kind \notin OneCharOperatorKinds =>
            last.origin.ptr + last.origin.len = byte
        /\ last.kind \in OneCharOperatorKinds =>
            /\ last.origin.ptr + last.origin.len <= byte
            /\ trim_start(SubSeq(whole, last.origin.ptr + last.origin.len + 1, byte))
                   = byte - (last.origin.ptr + last.origin.len)

\* a one-character operator was returned and the cursor is past its origin
CursorPastOperatorOrigin ==
    /\ last.tag = "Ok"
    /\ last.kind \in OneCharOperatorKinds
    /\ last.origin.ptr + last.origin.len < byte
    /\ Len(TokensOf(out)) >= 2

\* --------------------------------------------------------------- C6

\* everything a lexer returns when it is pulled until it returns None
RECURSIVE Stream(_)
Stream(lexer) ==
    IF next(lexer).item = None THEN <<>>
    ELSE <<next(lexer).item>>
             \o Stream([whole |-> lexer.whole, rest |-> next(lexer).rest,
                        byte |-> next(lexer).byte])

\* C6: the tokenize run prints every token of the stream in order, also
\* those after an error, and exits with status 65 if the lexer produced an
\* error and with success if it produced none.
TokenizePrintsAllTokensAndExits65OnError ==
    status \in {"exit0", "exit65", "panicked"} =>
        /\ printed = SelectSeq(Stream(Lexer(whole)), LAMBDA x : x.tag = "Ok")
        /\ status = IF \E i \in 1..Len(Stream(Lexer(whole))) :
                          Stream(Lexer(whole))[i].tag = "Err"
                    THEN "exit65" ELSE "exit0"

\* --------------------------------------------------------------- C7

\* C7: for every UnexpectedCharacter and UnterminatedString error, line()
\* returns 1 plus the number of newlines before the error's start offset,
\* whatever the byte length of the offending character.
LineIsOnePlusNewlinesBeforeStart ==
    (last.tag = "Err" /\ last.kind \in {"SingleTokenError", "StringTerminationError"}) =>
        line(last.src, last.err_span)
            = 1 + count(SubSeq(whole, 1, last.err_span.ptr), NL)

\* --------------------------------------------------------------- C8

\* C8: a fresh lexer run on a token's origin returns exactly one token, of
\* the same kind and with the same origin text, and then None.
RelexGivesTheSameToken ==
    mode = "relex" =>
        /\ Len(fout) <= 1
        /\ \A i \in 1..Len(fout) :
            /\ fout[i].item.tag = "Ok"
            /\ fout[i].item.kind = out[mark].item.kind
            /\ fout[i].item.n = out[mark].item.n
            /\ str(fresh.whole, fout[i].item.origin) = str(whole, out[mark].item.origin)
        /\ flast = None => Len(fout) = 1

\* --------------------------------------------------------------- C9

\* the two items have the same kind, payload and text
SameItem(a, wa, b, wb) ==
    /\ a.tag = b.tag
    /\ a.kind = b.kind
    /\ a.n = b.n
    /\ a.token = b.token
    /\ str(wa, a.origin) = str(wb, b.origin)
    /\ str(wa, a.err_span) = str(wb, b.err_span)

\* C9: what a lexer returns from a cursor state is what a fresh lexer
\* started on the unscanned suffix returns (kinds and origin texts), item
\* by item up to and including exhaustion; started on the whole buffer,
\* the second lexer returns the same sequence as the first.
SuffixLocality ==
    mode = "suffix" =>
        /\ Len(fout) <= Len(out) - mark
        /\ \A i \in 1..Len(fout) :
            SameItem(fout[i].item, fresh.whole, out[mark + i].item, whole)
        /\ flast = None => (last = None /\ Len(fout) = Len(out) - mark)
        /\ (last = None /\ nones = MaxNones /\ Len(fout) = Len(out) - mark) =>
            next(fresh).item = None

\* a second lexer started in the middle of the buffer has returned a token
\* and reached exhaustion together with the first
SuffixLexerExhausted ==
    /\ mode = "suffix"
    /\ mark > 0
    /\ flast = None
    /\ Len(fout) >= 2
    /\ fresh.whole # whole

\* --------------------------------------------------------------- C10

\* the end of the maximal run of digits and dots that begins at offset p
RunEnd(w, p) ==
    LET found == find_not(SubSeq(w, p + 1, Len(w)), Digits \cup {"."})
    IN IF found = NoIndex THEN Len(w) ELSE p + found

\* the run of digits and dots at p is D1.D2.D3 with no group empty
IsThreeGroups(w, p) ==
    LET run == SubSeq(w, p + 1, RunEnd(w, p))
    IN /\ p < Len(w)
       /\ w[p + 1] \in Digits
       /\ count(run, ".") = 2
       /\ \A k \in 1..3 : splitn3(run)[k] # <<>>

\* the lengths of the three groups
Group(w, p, k) ==
    Len(splitn3(SubSeq(w, p + 1, RunEnd(w, p)))[k])

\* C10: a digit-started run D1.D2.D3 gives a Number token with origin
\* D1.D2, then a Dot token, then a Number token with origin D3, and nothing
\* else comes from that run.
TruncateAtSecondDot ==
    \A i \in 1..Len(out) :
        LET p == SkipTrivia(whole, out[i].from)
            d1 == Group(whole, p, 1)
            d2 == Group(whole, p, 2)
            d3 == Group(whole, p, 3)
        IN IsThreeGroups(whole, p) =>
            /\ out[i].item.tag = "Ok"
            /\ out[i].item.kind = "Number"
            /\ out[i].item.origin = [ptr |-> p, len |-> d1 + 1 + d2]
            /\ out[i].to = p + d1 + 1 + d2
            /\ i + 1 <= Len(out) =>
                /\ out[i + 1].item.tag = "Ok"
                /\ out[i + 1].item.kind = "Dot"
                /\ out[i + 1].item.origin = [ptr |-> p + d1 + 1 + d2, len |-> 1]
            /\ i + 2 <= Len(out) =>
                /\ out[i + 2].item.tag = "Ok"
                /\ out[i + 2].item.kind = "Number"
                /\ out[i + 2].item.origin = [ptr |-> p + d1 + 1 + d2 + 1, len |-> d3]
                /\ out[i + 2].to = RunEnd(whole, p)
            /\ i + 3 <= Len(out) => RegionStart(out[i + 3]) >= RunEnd(whole, p)

\* a run D1.D2.D3 was lexed to its end and the lexer pulled to exhaustion
ThreeGroupsLexed ==
    \E i \in 1..Len(out) :
        /\ IsThreeGroups(whole, SkipTrivia(whole, out[i].from))
        /\ i + 2 <= Len(out)
        /\ last = None

\* --------------------------------------------------------------- C11

\* the bytes are one or more digits
IsDigits(s) ==
    s # <<>> /\ \A i \in 1..Len(s) : s[i] \in Digits

\* digits, or digits, one dot and one or more digits
IsIntegerOrFraction(s) ==
    \/ IsDigits(s)
    \/ \E d \in 2..(Len(s) - 1) :
        /\ s[d] = "."
        /\ IsDigits(SubSeq(s, 1, d - 1))
        /\ IsDigits(SubSeq(s, d + 1, Len(s)))

\* C11: the origin of every Number token is a digit group or a complete
\* integer.fraction segment: it never ends with a dot and never holds two
\* dots, wherever the dots of the run are.
NumberOriginIsIntegerOrFraction ==
    \A i \in 1..Len(out) :
        out[i].item.kind = "Number" =>
            IsIntegerOrFraction(str(whole, out[i].item.origin))


\* --------------------------------------------------------------- C12

\* the reserved words and their kinds
ReservedWords ==
    {<<<<"a", "n", "d">>, "And">>,
     <<<<"c", "l", "a", "s", "s">>, "Class">>,
     <<<<"e", "l", "s", "e">>, "Else">>,
     <<<<"f", "a", "l", "s", "e">>, "False">>,
     <<<<"f", "o", "r">>, "For">>,
     <<<<"f", "u", "n">>, "Fun">>,
     <<<<"i", "f">>, "If">>,
     <<<<"n", "i", "l">>, "Nil">>,
     <<<<"o", "r">>, "Or">>,
     <<<<"p", "r", "i", "n", "t">>, "Print">>,
     <<<<"r", "e", "t", "u", "r", "n">>, "Return">>,
     <<<<"s", "u", "p", "e", "r">>, "Super">>,
     <<<<"t", "h", "i", "s">>, "This">>,
     <<<<"t", "r", "u", "e">>, "True">>,
     <<<<"v", "a", "r">>, "Var">>,
     <<<<"w", "h", "i", "l", "e">>, "While">>}

\* the end of the maximal run of letters, digits and underscores from p
WordEnd(w, p) ==
    LET found == find_not(SubSeq(w, p + 1, Len(w)), Letters \cup Digits)
    IN IF found = NoIndex THEN Len(w) ELSE p + found

\* C12: at a letter or underscore, next returns the maximal run of letters,
\* digits and underscores as one token; its kind is a keyword kind only if
\* the whole run is exactly a reserved word, and Ident otherwise.
KeywordOnlyForTheWholeRun ==
    \A i \in 1..Len(out) :
        LET p == SkipTrivia(whole, out[i].from)
            word == SubSeq(whole, p + 1, WordEnd(whole, p))
        IN (p < Len(whole) /\ whole[p + 1] \in Letters) =>
            /\ out[i].item.tag = "Ok"
            /\ out[i].item.origin = [ptr |-> p, len |-> Len(word)]
            /\ out[i].to = WordEnd(whole, p)
            /\ \A rw \in ReservedWords : word = rw[1] => out[i].item.kind = rw[2]
            /\ (\A rw \in ReservedWords : word # rw[1]) => out[i].item.kind = "Ident"

\* a run that begins with the reserved word `for` and goes on was returned as
\* one identifier
ReservedWordAsPrefix ==
    /\ Len(out) = 1
    /\ last = None
    /\ out[1].item.kind = "Ident"
    /\ out[1].item.origin = [ptr |-> 0, len |-> 4]
    /\ SubSeq(whole, 1, 3) = <<"f", "o", "r">>

\* --------------------------------------------------------------- C13

\* the offsets after p + 1 that hold a double quote
LaterQuotes(w, p) ==
    {q \in (p + 1)..(Len(w) - 1) : w[q + 1] = QUOTE}

\* the offset of the first double quote after the one at p
ClosingQuote(w, p) ==
    CHOOSE q \in LaterQuotes(w, p) : \A r \in LaterQuotes(w, p) : q <= r

\* C13: at a double quote that has a later double quote in the buffer, next
\* returns one String token from the opening quote through the first later
\* quote, whatever lies between them (backslashes, newlines), and the next
\* pull starts right after the closing quote.
StringRunsToTheFirstLaterQuote ==
    \A i \in 1..Len(out) :
        LET p == SkipTrivia(whole, out[i].from)
        IN (p < Len(whole) /\ whole[p + 1] = QUOTE /\ LaterQuotes(whole, p) # {}) =>
            LET q == ClosingQuote(whole, p)
            IN /\ out[i].item.tag = "Ok"
               /\ out[i].item.kind = "String"
               /\ out[i].item.origin = [ptr |-> p, len |-> q + 1 - p]
               /\ out[i].to = q + 1
               /\ i < Len(out) => out[i + 1].from = q + 1
               /\ i = Len(out) /\ last = out[i].item => rest.ptr = q + 1

\* a literal holding a backslash right before its closing quote was returned
\* whole and the next pull gave the token after it
StringWithBackslashThenToken ==
    /\ Len(out) = 2
    /\ out[1].item.kind = "String"
    /\ out[1].item.origin = [ptr |-> 0, len |-> 3]
    /\ whole[2] = "\\"
    /\ out[2].item.kind = "Ident"
    /\ out[2].from = 3


\* --------------------------------------------------------------- C14

\* the one-character and the two-character kind of each operator
OperatorKinds ==
    {<<"!", "Bang", "BangEqual">>,
     <<"=", "Equal", "EqualEqual">>,
     <<"<", "Less", "LessEqual">>,
     <<">", "Greater", "GreaterEqual">>}

\* the first offset at or after p that holds no whitespace character
RECURSIVE SkipSpace(_, _)
SkipSpace(w, p) ==
    IF p >= Len(w) THEN Len(w)
    ELSE IF is_whitespace(CharAt(w, p)) THEN SkipSpace(w, p + len_utf8(CharAt(w, p)))
    ELSE p

\* C14: at `!`, `=`, `<` or `>`, if the first non-whitespace character after
\* the operator is `=`, next returns the two-character kind with an origin
\* from the operator through that `=`; otherwise it returns the one-character
\* kind with the operator alone as origin, and the whitespace skipped after
\* it is in no later token.
OperatorTakesTheNextEqual ==
    \A i \in 1..Len(out) : \A op \in OperatorKinds :
        LET p == SkipTrivia(whole, out[i].from)
            e == SkipSpace(whole, p + 1)
        IN (p < Len(whole) /\ whole[p + 1] = op[1]) =>
            /\ out[i].item.tag = "Ok"
            /\ out[i].item.origin.ptr = p
            /\ IF e < Len(whole) /\ whole[e + 1] = "="
               THEN /\ out[i].item.kind = op[3]
                    /\ out[i].item.origin.len = e + 1 - p
                    /\ out[i].to = e + 1
               ELSE /\ out[i].item.kind = op[2]
                    /\ out[i].item.origin.len = 1
                    /\ out[i].to = e
                    /\ \A j \in (i + 1)..Len(out) : RegionStart(out[j]) >= e

\* `<`, a whitespace character and `=` came out as one LessEqual token whose
\* origin holds all three
OperatorAcrossWhitespace ==
    /\ Len(out) = 1
    /\ out[1].item.kind = "LessEqual"
    /\ out[1].item.origin.ptr = 0
    /\ out[1].item.origin.len = Len(whole)
    /\ Len(whole) >= 3
    /\ is_whitespace(CharAt(whole, 1))

\* --------------------------------------------------------------- C15

\* the offset the last call started from
LastFrom ==
    IF out = <<>> THEN 0 ELSE out[Len(out)].to

\* C15: a call that meets `//` returns nothing for the bytes from the first
\* slash up to the next newline or the end of the input and goes on to
\* return what follows (or None); a `/` not directly followed by `/` is a
\* Slash token of one character.
CommentsAreSkippedInOneCall ==
    /\ \A i \in 1..Len(out) :
        LET p == SkipTrivia(whole, out[i].from)
        IN /\ p < Len(whole)
           /\ RegionStart(out[i]) = p
           /\ whole[p + 1] = "/" =>
               /\ out[i].item.tag = "Ok"
               /\ out[i].item.kind = "Slash"
               /\ out[i].item.origin = [ptr |-> p, len |-> 1]
               /\ out[i].to = p + 1
    /\ last = None => SkipTrivia(whole, LastFrom) = Len(whole)

\* one call skipped a comment with text in it, the newline after it, and
\* returned the token of the next line
TokenAfterComment ==
    /\ Len(whole) >= 5
    /\ SubSeq(whole, 1, 2) = <<"/", "/">>
    /\ whole[3] # NL
    /\ Len(out) = 1
    /\ out[1].from = 0
    /\ out[1].item.kind = "Plus"
    /\ RegionStart(out[1]) = LineEnd(whole, 0) + 1


\* --------------------------------------------------------------- C16

\* C16: the line written for a String token is `STRING`, a space, the origin
\* with its quotes, a space, and the origin without its first and its last
\* byte, the two quotes, and with no other change.
StringLineIsOriginAndOriginWithoutQuotes ==
    /\ Len(stdout) = Len(printed)
    /\ \A i \in 1..Len(printed) :
        LET origin == str(whole, printed[i].origin)
        IN printed[i].kind = "String" =>
            /\ origin[1] = QUOTE
            /\ origin[Len(origin)] = QUOTE
            /\ stdout[i] = <<"STRING", " ">> \o origin \o <<" ">>
                               \o SubSeq(origin, 2, Len(origin) - 1)

\* the empty literal was written with an empty value, and the run ended
EmptyStringWritten ==
    /\ status = "exit0"
    /\ Len(stdout) = 2
    /\ stdout[1] = <<"STRING", " ", QUOTE, QUOTE, " ">>
    /\ stdout[2] = <<"IDENTFIER", " ", "a">>

\* --------------------------------------------------------------- C17

\* digits, then at most one dot, then digits if any: what the number rule
\* keeps and what f64's parse accepts of it
IsParsable(s) ==
    /\ s # <<>>
    /\ s[1] \in Digits
    /\ \A i \in 1..Len(s) : s[i] \in Digits \cup {"."}
    /\ count(s, ".") <= 1

\* C17: no call returns the numeric-literal error: at a digit the literal
\* kept starts with a digit and parses, so a Number token is returned, and
\* the only errors are the unexpected character and the unterminated string.
NumericLiteralErrorIsUnreachable ==
    \A i \in 1..Len(out) :
        LET p == SkipTrivia(whole, out[i].from)
        IN /\ out[i].item.kind # "NumericLiteralError"
           /\ out[i].item.tag = "Err" =>
               out[i].item.kind \in {"SingleTokenError", "StringTerminationError"}
           /\ (p < Len(whole) /\ whole[p + 1] \in Digits) =>
               /\ out[i].item.tag = "Ok"
               /\ out[i].item.kind = "Number"
               /\ out[i].item.origin.ptr = p
               /\ IsParsable(str(whole, out[i].item.origin))

\* a run of digits and several dots was lexed to its end, one of its
\* literals ending with the dot
DottedRunLexed ==
    /\ last = None
    /\ Len(whole) >= 4
    /\ \A i \in 1..Len(whole) : whole[i] \in Digits \cup {"."}
    /\ count(whole, ".") >= 2
    /\ \E i \in 1..Len(out) :
        /\ out[i].item.kind = "Number"
        /\ whole[out[i].to] = "."


\* --------------------------------------------------------------- C18

\* a call never lengthens the unscanned suffix, and one that returns a token
\* or an error shortens it by at least one byte
NextShrinksRest ==
    /\ rest'.len <= rest.len
    /\ last' # None => rest'.len <= rest.len - 1

\* C18: every call that returns a token or an error shortens the unscanned
\* suffix, no call lengthens it, a buffer of n bytes gives at most n tokens
\* and errors, and a caller that keeps pulling reaches None.
ProgressAndTermination ==
    /\ [][NextShrinksRest]_vars
    /\ [](Len(out) <= Len(whole))
    /\ <>(last = None)

\* a buffer of n bytes gave n items, an error among them, and then None
AsManyItemsAsBytes ==
    /\ last = None
    /\ Len(whole) >= 3
    /\ Len(out) = Len(whole)
    /\ \E i \in 1..Len(out) : out[i].item.tag = "Err"


\* --------------------------------------------------------------- C19

\* rest is the suffix of whole that begins at offset byte, on a character
\* boundary
CursorIsConsistent ==
    /\ rest.ptr + rest.len = Len(whole)
    /\ byte = Len(whole) - rest.len
    /\ is_char_boundary(whole, byte)

\* the span of an error lies on the bytes it reports: the unexpected
\* character, or the unterminated literal from its quote to the end
SpanIsOnTheReportedBytes(e) ==
    LET p == SkipTrivia(whole, e.from)
    IN /\ e.item.kind = "SingleTokenError" =>
           /\ e.item.err_span.ptr = p
           /\ str(whole, e.item.err_span) = utf8(e.item.token)
           /\ e.to = p + e.item.err_span.len
       /\ e.item.kind = "StringTerminationError" =>
           /\ e.item.err_span.ptr = p
           /\ whole[p + 1] = QUOTE
           /\ p + e.item.err_span.len = Len(whole)

\* C19: after Lexer::new and after every return from next, rest is a suffix
\* of whole and byte is len(whole) - len(rest), and every error's span is on
\* the bytes that are reported.
CursorConsistency ==
    /\ CursorIsConsistent
    /\ \A i \in 1..Len(out) :
        out[i].item.tag = "Err" => SpanIsOnTheReportedBytes(out[i])

\* after an operator that trimmed a two-byte whitespace character, an
\* unexpected character was reported at its own offset
ErrorAfterTrimmedWhitespace ==
    /\ Len(out) = 2
    /\ out[1].item.kind = "Equal"
    /\ out[1].to = 3
    /\ out[2].item.kind = "SingleTokenError"
    /\ out[2].item.err_span.ptr = 3
    /\ byte = out[2].item.err_span.ptr + out[2].item.err_span.len

====
